---- MODULE Spec2Model ----
(***************************************************************************)
(* Course catalog canister (icp_rust_boilerplate_backend/src/lib.rs).      *)
(* State: the id counter, the course table, the admin cell, the moderator  *)
(* list and the banned list.  Every exported update/query is one action.   *)
(***************************************************************************)
EXTENDS Integers, Sequences, FiniteSets

VARIABLES
    ID_COUNTER,           \* Cell<u64>: next id to issue
    STORAGE,              \* StableBTreeMap<u64, Course>: function id -> Course
    ADMIN_ADDRESS,        \* Option<String>: <<>> is None, <<a>> is Some(a)
    MODERATOR_ADDRESSES,  \* Vec<String>
    BANNED_ADDRESSES,     \* Vec<String>
    issued,               \* history: ids returned by successful add_course calls
    last                  \* the last call: operation, address or id argument, reply

vars == <<ID_COUNTER, STORAGE, ADMIN_ADDRESS, MODERATOR_ADDRESSES,
          BANNED_ADDRESSES, issued, last>>

----------------------------------------------------------------------------
(* Bounds of the model *)

\* add_course is not taken once the counter has reached MaxId
MaxId == 2

\* add_moderator: addresses.len() >= 5
MaxModerators == 5

\* principals that call the canister
Callers == {"A", "B", "C"}

\* strings passed as the address of ban_creator, un_ban_creator and
\* delete_courses_by_creator
Addrs == Callers

\* strings passed as the address of set_admin_address
AdminAddrs == {"A", "B"}

\* strings passed as the address of add_moderator and remove_moderator
ModAddrs == {"B"}

\* the ledger-only specification: its callers, and enough moderator addresses
\* to fill the list
LedgerCallers == {"A", "B"}

LedgerModAddrs == {"A", "C", "D", "E", "F", "G"}

\* values time() returns
Times == {1}

\* ids a caller names in the calls of the specification
Ids == 0..(MaxId - 1)

\* ids the properties range over: the ones that can be issued and one that never is
AllIds == 0..MaxId

----------------------------------------------------------------------------
(* Values *)

\* Option<T>
None == <<>>

Some(v) == <<v>>

is_none(o) == o = <<>>

\* Vec::contains
contains(vec, x) == \E i \in 1..Len(vec) : vec[i] = x

\* Vec::retain(|a| a != x), one element at a time
RECURSIVE retain_loop(_, _)
retain_loop(vec, x) ==
    IF vec = <<>> THEN <<>>
    ELSE IF Head(vec) # x THEN <<Head(vec)>> \o retain_loop(Tail(vec), x)
    ELSE retain_loop(Tail(vec), x)

\* mutant of retain_ne: nothing is dropped
retain_ne_keeps_all(vec, x) == vec

\* Vec::retain(|a| a != x)
retain_ne(vec, x) == retain_loop(vec, x)

\* Vec::iter().position(|y| *y == x): 0 stands for None
position(vec, x) ==
    IF contains(vec, x)
    THEN CHOOSE i \in 1..Len(vec) : vec[i] = x /\ \A j \in 1..(i - 1) : vec[j] # x
    ELSE 0

\* mutant of remove_at: the element stays
remove_at_nothing(vec, pos) == vec

\* Vec::remove(pos)
remove_at(vec, pos) == [i \in 1..(Len(vec) - 1) |-> IF i < pos THEN vec[i] ELSE vec[i + 1]]

\* the payload of add_course
CoursePayLoad(title, creator_name, body, attachment_url, keyword, category, contact) ==
    [title |-> title, creator_name |-> creator_name, body |-> body,
     attachment_url |-> attachment_url, keyword |-> keyword,
     category |-> category, contact |-> contact]

\* the payload of update_course: every field is an Option<String>
CourseUpdatePayLoad(title, creator_name, body, attachment_url, keyword, category, contact) ==
    [title |-> title, creator_name |-> creator_name, body |-> body,
     attachment_url |-> attachment_url, keyword |-> keyword,
     category |-> category, contact |-> contact]

\* the payload of the filters: every field is an Option<String>
FilterPayLoad(keyword, category, creator_address) ==
    [keyword |-> keyword, category |-> category, creator_address |-> creator_address]

\* a payload with every field filled in
ValidPayload == CoursePayLoad("x", "x", "x", "x", "x", "x", "x")

\* payloads offered to add_course: a complete one, and one with an empty field
AddPayloads == {ValidPayload, CoursePayLoad("x", "x", "x", "x", "x", "x", "")}

\* patches offered to update_course: a title patch
UpdatePayloads == {CourseUpdatePayLoad(Some("y"), None, None, None, None, None, None)}

\* filter payloads offered in the calls of the specification: the empty one and
\* one that names a creator
MainFilterPayloads ==
    {FilterPayLoad(None, None, None), FilterPayLoad(None, None, Some("A"))}

\* the filter specification: its callers, the payloads they add courses with and
\* the filter payloads they send
FilterCallers == {"A", "B"}

FilterAddPayloads ==
    {CoursePayLoad("x", "x", "x", "x", k, c, "x") : k \in {"x", "y"}, c \in {"x", "y"}}

FilterPayloads ==
    {FilterPayLoad(k, c, a) :
        k \in {None, Some("x"), Some("y")},
        c \in {None, Some("x"), Some("y")},
        a \in {None, Some("A"), Some("B")}}

\* the update specification: its callers, the patches they send and the values
\* time() returns (the creation time and a later one)
UpdateCallers == {"A", "B"}

UpdateActionPatches ==
    {CourseUpdatePayLoad(Some("z"), None, None, None, None, None, None),
     CourseUpdatePayLoad(None, None, None, None, Some(""), None, Some("z"))}

PatchTimes == {1, 2}

\* StableBTreeMap::get: None when the key is absent
get(id) == IF id \in DOMAIN STORAGE THEN Some(STORAGE[id]) ELSE None

\* StableBTreeMap::insert
insert(map, id, course) ==
    [k \in (DOMAIN map) \cup {id} |-> IF k = id THEN course ELSE map[k]]

\* mutant of remove: the entry stays
remove_nothing(map, id) == map

\* StableBTreeMap::remove
remove(map, id) == [k \in (DOMAIN map) \ {id} |-> map[k]]

\* mutant of keys_in_order: the keys come in descending order
RECURSIVE keys_in_order_desc(_)
keys_in_order_desc(S) ==
    IF S = {} THEN <<>>
    ELSE LET m == CHOOSE k \in S : \A j \in S : k >= j
         IN <<m>> \o keys_in_order_desc(S \ {m})

\* the keys of a map in iteration order (ascending)
RECURSIVE keys_in_order(_)
keys_in_order(S) ==
    IF S = {} THEN <<>>
    ELSE LET m == CHOOSE k \in S : \A j \in S : k <= j
         IN <<m>> \o keys_in_order(S \ {m})

\* what the handlers reply
Reply(res, ret) == [res |-> res, ret |-> ret]

----------------------------------------------------------------------------
(* Internal helper functions *)

\* _get_course_
_get_course_(id) == get(id)

\* mutant of do_insert: the course is stored under key 0
do_insert_key_zero(map, course) == insert(map, 0, course)

\* do_insert: the table with the course stored under its own id
do_insert(map, course) == insert(map, course.id, course)

\* _is_admin: the address is the admin
_is_admin(address) ==
    IF ~is_none(ADMIN_ADDRESS)
    THEN (IF address = ADMIN_ADDRESS[1] THEN TRUE ELSE FALSE)
    ELSE FALSE

\* mutant of _is_authorized: every caller passes
_is_authorized_anyone(address) == TRUE

\* _is_authorized: the address is the admin or a moderator
_is_authorized(address) ==
    IF ~is_none(ADMIN_ADDRESS)
    THEN (IF address = ADMIN_ADDRESS[1] THEN TRUE
          ELSE contains(MODERATOR_ADDRESSES, address))
    ELSE FALSE

\* mutant of _is_allowed: every caller is let through
_is_allowed_anyone(id, caller) == id \in DOMAIN STORAGE

\* _is_allowed: the caller is the creator of the course stored under id, or the
\* admin, or a moderator (called only for an id that is in the table)
_is_allowed(id, caller) ==
    IF STORAGE[id].creator_address = caller THEN TRUE
    ELSE IF ~is_none(ADMIN_ADDRESS)
         THEN (IF caller = ADMIN_ADDRESS[1] THEN TRUE
               ELSE contains(MODERATOR_ADDRESSES, caller))
         ELSE FALSE

\* the courses of the table, in iteration order, whose creator is the address
RECURSIVE courses_of(_, _, _)
courses_of(map, keys, address) ==
    IF keys = <<>> THEN <<>>
    ELSE IF map[Head(keys)].creator_address = address
         THEN <<map[Head(keys)]>> \o courses_of(map, Tail(keys), address)
         ELSE courses_of(map, Tail(keys), address)

\* mutant of remove_courses_of: the marked keys are not removed
remove_courses_of_none(map, address) == map

\* the table without the courses whose creator is the address
remove_courses_of(map, address) ==
    [k \in {j \in DOMAIN map : map[j].creator_address # address} |-> map[k]]

----------------------------------------------------------------------------
(* The exported operations: the reply and the cells they write *)

\* mutant of set_admin_address: the caller is not compared with the admin
set_admin_address_open(caller, address) ==
    [res |-> "Ok", ret |-> <<>>, admin |-> Some(address)]

\* set_admin_address
set_admin_address(caller, address) ==
    IF is_none(ADMIN_ADDRESS) \/ ADMIN_ADDRESS[1] = caller
    THEN [res |-> "Ok", ret |-> <<>>, admin |-> Some(address)]
    ELSE [res |-> "UnAuthorized", ret |-> <<>>, admin |-> ADMIN_ADDRESS]

\* mutant of add_moderator: the capacity test is > instead of >=
add_moderator_off_by_one(caller, address) ==
    IF _is_admin(caller)
    THEN IF Len(MODERATOR_ADDRESSES) > MaxModerators
         THEN [res |-> "Maximum number of moderators reached", ret |-> <<>>,
               moderators |-> MODERATOR_ADDRESSES]
         ELSE IF contains(MODERATOR_ADDRESSES, address)
         THEN [res |-> "Moderator address already exists", ret |-> <<>>,
               moderators |-> MODERATOR_ADDRESSES]
         ELSE [res |-> "Ok", ret |-> <<>>,
               moderators |-> Append(MODERATOR_ADDRESSES, address)]
    ELSE [res |-> "Only admin can add moderators", ret |-> <<>>,
          moderators |-> MODERATOR_ADDRESSES]

\* add_moderator (its failures are strings)
add_moderator(caller, address) ==
    IF _is_admin(caller)
    THEN IF Len(MODERATOR_ADDRESSES) >= MaxModerators
         THEN [res |-> "Maximum number of moderators reached", ret |-> <<>>,
               moderators |-> MODERATOR_ADDRESSES]
         ELSE IF contains(MODERATOR_ADDRESSES, address)
         THEN [res |-> "Moderator address already exists", ret |-> <<>>,
               moderators |-> MODERATOR_ADDRESSES]
         ELSE [res |-> "Ok", ret |-> <<>>,
               moderators |-> Append(MODERATOR_ADDRESSES, address)]
    ELSE [res |-> "Only admin can add moderators", ret |-> <<>>,
          moderators |-> MODERATOR_ADDRESSES]

\* remove_moderator
remove_moderator(caller, address) ==
    IF _is_admin(caller)
    THEN IF contains(MODERATOR_ADDRESSES, address)
         THEN [res |-> "Ok", ret |-> <<>>,
               moderators |-> retain_ne(MODERATOR_ADDRESSES, address)]
         ELSE [res |-> "NotFound", ret |-> <<>>, moderators |-> MODERATOR_ADDRESSES]
    ELSE [res |-> "UnAuthorized", ret |-> <<>>, moderators |-> MODERATOR_ADDRESSES]

\* get_course
get_course(id) ==
    IF ~is_none(_get_course_(id))
    THEN Reply("Ok", <<_get_course_(id)[1]>>)
    ELSE Reply("NotFound", <<>>)

\* mutant of matches_and: only the keyword is compared
matches_and_keyword_only(course, payload) ==
    IF ~is_none(payload.keyword) THEN course.keyword = payload.keyword[1] ELSE TRUE

\* the closure of filter_courses_and: matches starts true and is and-ed with
\* the comparison of every criterion that is present
matches_and(course, payload) ==
    LET m0 == TRUE
        m1 == IF ~is_none(payload.keyword)
              THEN m0 /\ (course.keyword = payload.keyword[1]) ELSE m0
        m2 == IF ~is_none(payload.category)
              THEN m1 /\ (course.category = payload.category[1]) ELSE m1
        m3 == IF ~is_none(payload.creator_address)
              THEN m2 /\ (course.creator_address = payload.creator_address[1]) ELSE m2
    IN m3

\* the closure of filter_courses_or: matches starts false and is or-ed with
\* the comparison of every criterion that is present
matches_or(course, payload) ==
    LET m0 == FALSE
        m1 == IF ~is_none(payload.keyword)
              THEN m0 \/ (course.keyword = payload.keyword[1]) ELSE m0
        m2 == IF ~is_none(payload.category)
              THEN m1 \/ (course.category = payload.category[1]) ELSE m1
        m3 == IF ~is_none(payload.creator_address)
              THEN m2 \/ (course.creator_address = payload.creator_address[1]) ELSE m2
    IN m3

\* iter().filter_map(..).collect() of filter_courses_and
RECURSIVE collect_and(_, _, _)
collect_and(map, keys, payload) ==
    IF keys = <<>> THEN <<>>
    ELSE IF matches_and(map[Head(keys)], payload)
         THEN <<map[Head(keys)]>> \o collect_and(map, Tail(keys), payload)
         ELSE collect_and(map, Tail(keys), payload)

\* iter().filter_map(..).collect() of filter_courses_or
RECURSIVE collect_or(_, _, _)
collect_or(map, keys, payload) ==
    IF keys = <<>> THEN <<>>
    ELSE IF matches_or(map[Head(keys)], payload)
         THEN <<map[Head(keys)]>> \o collect_or(map, Tail(keys), payload)
         ELSE collect_or(map, Tail(keys), payload)

\* mutant of payload_is_empty: the test is skipped
payload_is_empty_never(payload) == FALSE

\* the payload names no criterion
payload_is_empty(payload) ==
    is_none(payload.keyword) /\ is_none(payload.category)
        /\ is_none(payload.creator_address)

\* filter_courses_and
filter_courses_and(payload) ==
    IF payload_is_empty(payload)
    THEN [res |-> "NotFound", ret |-> <<>>,
          msg |-> "Filter payload is empty; at least one filter criterion must be provided"]
    ELSE LET courses == collect_and(STORAGE, keys_in_order(DOMAIN STORAGE), payload)
         IN IF courses = <<>>
            THEN [res |-> "NotFound", ret |-> <<>>,
                  msg |-> "couldn't find a course with provided inputs"]
            ELSE [res |-> "Ok", ret |-> courses, msg |-> ""]

\* filter_courses_or
filter_courses_or(payload) ==
    IF payload_is_empty(payload)
    THEN [res |-> "NotFound", ret |-> <<>>,
          msg |-> "Filter payload is empty; at least one filter criterion must be provided"]
    ELSE LET courses == collect_or(STORAGE, keys_in_order(DOMAIN STORAGE), payload)
         IN IF courses = <<>>
            THEN [res |-> "NotFound", ret |-> <<>>,
                  msg |-> "couldn't find a course with provided inputs"]
            ELSE [res |-> "Ok", ret |-> courses, msg |-> ""]

\* mutant of next_counter: the counter is written back unchanged
next_counter_stuck(current_value) == current_value

\* the value add_course writes to the counter: current_value + 1
next_counter(current_value) == current_value + 1

\* mutant of add_course: the banned list is not consulted
add_course_no_ban_check(caller, course, t) ==
    IF \/ course.title = ""
       \/ course.creator_name = ""
       \/ course.body = ""
       \/ course.attachment_url = ""
       \/ course.keyword = ""
       \/ course.category = ""
       \/ course.contact = ""
    THEN [res |-> "EmptyFields", ret |-> <<>>,
          counter |-> ID_COUNTER, storage |-> STORAGE]
    ELSE LET current_value == ID_COUNTER
             new == [id |-> current_value,
                     creator_address |-> caller,
                     creator_name |-> course.creator_name,
                     title |-> course.title,
                     body |-> course.body,
                     attachment_url |-> course.attachment_url,
                     created_at |-> t,
                     updated_at |-> None,
                     category |-> course.category,
                     keyword |-> course.keyword,
                     contact |-> course.contact]
         IN [res |-> "Ok", ret |-> <<new>>,
             counter |-> next_counter(current_value),
             storage |-> do_insert(STORAGE, new)]

\* mutant of add_course: the id is issued before the ban check and the validation
add_course_id_first(caller, course, t) ==
    LET current_value == ID_COUNTER
        id == current_value
        new == [id |-> id,
                creator_address |-> caller,
                creator_name |-> course.creator_name,
                title |-> course.title,
                body |-> course.body,
                attachment_url |-> course.attachment_url,
                created_at |-> t,
                updated_at |-> None,
                category |-> course.category,
                keyword |-> course.keyword,
                contact |-> course.contact]
    IN IF contains(BANNED_ADDRESSES, caller)
       THEN [res |-> "BannedUser", ret |-> <<>>,
             counter |-> next_counter(current_value), storage |-> STORAGE]
       ELSE IF \/ course.title = ""
               \/ course.creator_name = ""
               \/ course.body = ""
               \/ course.attachment_url = ""
               \/ course.keyword = ""
               \/ course.category = ""
               \/ course.contact = ""
       THEN [res |-> "EmptyFields", ret |-> <<>>,
             counter |-> next_counter(current_value), storage |-> STORAGE]
       ELSE [res |-> "Ok", ret |-> <<new>>,
             counter |-> next_counter(current_value),
             storage |-> do_insert(STORAGE, new)]

\* add_course: the ban check, the validation, then the id is issued
add_course(caller, course, t) ==
    IF contains(BANNED_ADDRESSES, caller)
    THEN [res |-> "BannedUser", ret |-> <<>>,
          counter |-> ID_COUNTER, storage |-> STORAGE]
    ELSE IF \/ course.title = ""
            \/ course.creator_name = ""
            \/ course.body = ""
            \/ course.attachment_url = ""
            \/ course.keyword = ""
            \/ course.category = ""
            \/ course.contact = ""
    THEN [res |-> "EmptyFields", ret |-> <<>>,
          counter |-> ID_COUNTER, storage |-> STORAGE]
    ELSE LET current_value == ID_COUNTER
             id == current_value
             new == [id |-> id,
                     creator_address |-> caller,
                     creator_name |-> course.creator_name,
                     title |-> course.title,
                     body |-> course.body,
                     attachment_url |-> course.attachment_url,
                     created_at |-> t,
                     updated_at |-> None,
                     category |-> course.category,
                     keyword |-> course.keyword,
                     contact |-> course.contact]
         IN [res |-> "Ok", ret |-> <<new>>,
             counter |-> next_counter(current_value),
             storage |-> do_insert(STORAGE, new)]

\* mutant of patched: an absent patch value clears the field
patched_clears_absent(old, opt) == IF ~is_none(opt) THEN opt[1] ELSE ""

\* a field of a course after an optional patch value
patched(old, opt) == IF ~is_none(opt) THEN opt[1] ELSE old

\* update_course
update_course(caller, id, payload, t) ==
    IF ~is_none(get(id))
    THEN IF _is_allowed(id, caller)
         THEN LET course == get(id)[1]
                  new == [course EXCEPT
                            !.title = patched(@, payload.title),
                            !.creator_name = patched(@, payload.creator_name),
                            !.body = patched(@, payload.body),
                            !.attachment_url = patched(@, payload.attachment_url),
                            !.keyword = patched(@, payload.keyword),
                            !.category = patched(@, payload.category),
                            !.contact = patched(@, payload.contact),
                            !.updated_at = Some(t)]
              IN [res |-> "Ok", ret |-> <<new>>, storage |-> do_insert(STORAGE, new)]
         ELSE [res |-> "UnAuthorized", ret |-> <<>>, storage |-> STORAGE]
    ELSE [res |-> "NotFound", ret |-> <<>>, storage |-> STORAGE]

\* mutant of delete_course: the record is removed before the caller is checked
delete_course_removes_first(caller, id) ==
    IF ~is_none(get(id))
    THEN IF _is_allowed(id, caller)
         THEN [res |-> "Ok", ret |-> <<get(id)[1]>>, storage |-> remove(STORAGE, id)]
         ELSE [res |-> "UnAuthorized", ret |-> <<>>, storage |-> remove(STORAGE, id)]
    ELSE [res |-> "NotFound", ret |-> <<>>, storage |-> STORAGE]

\* delete_course
delete_course(caller, id) ==
    IF ~is_none(get(id))
    THEN IF _is_allowed(id, caller)
         THEN [res |-> "Ok", ret |-> <<get(id)[1]>>, storage |-> remove(STORAGE, id)]
         ELSE [res |-> "UnAuthorized", ret |-> <<>>, storage |-> STORAGE]
    ELSE [res |-> "NotFound", ret |-> <<>>, storage |-> STORAGE]

\* delete_courses_by_creator
delete_courses_by_creator(caller, address) ==
    LET is_allowed ==
            IF address = caller THEN TRUE
            ELSE IF ~is_none(ADMIN_ADDRESS)
                 THEN (IF caller = ADMIN_ADDRESS[1] THEN TRUE
                       ELSE contains(MODERATOR_ADDRESSES, caller))
                 ELSE FALSE
        deleted_courses == courses_of(STORAGE, keys_in_order(DOMAIN STORAGE), address)
    IN IF is_allowed
       THEN IF deleted_courses = <<>>
            THEN [res |-> "NotFound", ret |-> <<>>,
                  storage |-> remove_courses_of(STORAGE, address)]
            ELSE [res |-> "Ok", ret |-> deleted_courses,
                  storage |-> remove_courses_of(STORAGE, address)]
       ELSE [res |-> "UnAuthorized", ret |-> <<>>, storage |-> STORAGE]

\* delete_my_courses
delete_my_courses(caller) ==
    LET deleted_courses == courses_of(STORAGE, keys_in_order(DOMAIN STORAGE), caller)
    IN IF deleted_courses = <<>>
       THEN [res |-> "NotFound", ret |-> <<>>,
             storage |-> remove_courses_of(STORAGE, caller)]
       ELSE [res |-> "Ok", ret |-> deleted_courses,
             storage |-> remove_courses_of(STORAGE, caller)]

\* mutant of ban_creator: the address is pushed whatever the deletion replied
ban_creator_bans_anyway(caller, address) ==
    LET is_authorized == _is_authorized(caller)
        is_allowed ==
            IF ~is_none(ADMIN_ADDRESS)
            THEN (IF address = ADMIN_ADDRESS[1] THEN FALSE
                  ELSE IF contains(MODERATOR_ADDRESSES, address) THEN FALSE
                  ELSE TRUE)
            ELSE FALSE
        deleted == delete_courses_by_creator(caller, address)
    IN IF is_allowed /\ is_authorized
       THEN IF deleted.res = "Ok"
            THEN [res |-> "Ok", ret |-> deleted.ret, storage |-> deleted.storage,
                  banned |-> Append(BANNED_ADDRESSES, address)]
            ELSE [res |-> "NotFound", ret |-> <<>>, storage |-> deleted.storage,
                  banned |-> Append(BANNED_ADDRESSES, address)]
       ELSE [res |-> "UnAuthorized", ret |-> <<>>, storage |-> STORAGE,
             banned |-> BANNED_ADDRESSES]

\* mutant of ban_creator: the role of the address is not looked at
ban_creator_no_target_check(caller, address) ==
    LET deleted == delete_courses_by_creator(caller, address)
    IN IF _is_authorized(caller)
       THEN IF deleted.res = "Ok"
            THEN [res |-> "Ok", ret |-> deleted.ret, storage |-> deleted.storage,
                  banned |-> Append(BANNED_ADDRESSES, address)]
            ELSE [res |-> "NotFound", ret |-> <<>>, storage |-> deleted.storage,
                  banned |-> BANNED_ADDRESSES]
       ELSE [res |-> "UnAuthorized", ret |-> <<>>, storage |-> STORAGE,
             banned |-> BANNED_ADDRESSES]

\* ban_creator: the caller's role, the address's role, the deletion, the ban
ban_creator(caller, address) ==
    LET is_authorized == _is_authorized(caller)
        is_allowed ==
            IF ~is_none(ADMIN_ADDRESS)
            THEN (IF address = ADMIN_ADDRESS[1] THEN FALSE
                  ELSE IF contains(MODERATOR_ADDRESSES, address) THEN FALSE
                  ELSE TRUE)
            ELSE FALSE
        deleted == delete_courses_by_creator(caller, address)
    IN IF is_allowed /\ is_authorized
       THEN IF deleted.res = "Ok"
            THEN [res |-> "Ok", ret |-> deleted.ret, storage |-> deleted.storage,
                  banned |-> Append(BANNED_ADDRESSES, address)]
            ELSE [res |-> "NotFound", ret |-> <<>>, storage |-> deleted.storage,
                  banned |-> BANNED_ADDRESSES]
       ELSE [res |-> "UnAuthorized", ret |-> <<>>, storage |-> STORAGE,
             banned |-> BANNED_ADDRESSES]

\* un_ban_creator
un_ban_creator(caller, address) ==
    IF _is_authorized(caller)
    THEN LET pos == position(BANNED_ADDRESSES, address)
         IN IF pos # 0
            THEN [res |-> "Ok", ret |-> <<>>,
                  banned |-> remove_at(BANNED_ADDRESSES, pos)]
            ELSE [res |-> "NotFound", ret |-> <<>>, banned |-> BANNED_ADDRESSES]
    ELSE [res |-> "UnAuthorized", ret |-> <<>>, banned |-> BANNED_ADDRESSES]

----------------------------------------------------------------------------
(* The state machine *)

\* the record of a call
Call(op, addr, id, r) == [op |-> op, addr |-> addr, id |-> id, res |-> r.res]

Init ==
    /\ ID_COUNTER = 0
    /\ STORAGE = <<>>
    /\ ADMIN_ADDRESS = None
    /\ MODERATOR_ADDRESSES = <<>>
    /\ BANNED_ADDRESSES = <<>>
    /\ issued = <<>>
    /\ last = [op |-> "init", addr |-> "", id |-> 0, res |-> ""]

SetAdminAddress(caller, address) ==
    LET r == set_admin_address(caller, address)
    IN /\ ADMIN_ADDRESS' = r.admin
       /\ last' = Call("set_admin_address", address, 0, r)
       /\ UNCHANGED <<ID_COUNTER, STORAGE, MODERATOR_ADDRESSES, BANNED_ADDRESSES, issued>>

AddModerator(caller, address) ==
    LET r == add_moderator(caller, address)
    IN /\ MODERATOR_ADDRESSES' = r.moderators
       /\ last' = Call("add_moderator", address, 0, r)
       /\ UNCHANGED <<ID_COUNTER, STORAGE, ADMIN_ADDRESS, BANNED_ADDRESSES, issued>>

RemoveModerator(caller, address) ==
    LET r == remove_moderator(caller, address)
    IN /\ MODERATOR_ADDRESSES' = r.moderators
       /\ last' = Call("remove_moderator", address, 0, r)
       /\ UNCHANGED <<ID_COUNTER, STORAGE, ADMIN_ADDRESS, BANNED_ADDRESSES, issued>>

GetCourse(id) ==
    LET r == get_course(id)
    IN /\ last' = Call("get_course", "", id, r)
       /\ UNCHANGED <<ID_COUNTER, STORAGE, ADMIN_ADDRESS, MODERATOR_ADDRESSES,
                      BANNED_ADDRESSES, issued>>

FilterCoursesAnd(payload) ==
    LET r == filter_courses_and(payload)
    IN /\ last' = Call("filter_courses_and", "", 0, r)
       /\ UNCHANGED <<ID_COUNTER, STORAGE, ADMIN_ADDRESS, MODERATOR_ADDRESSES,
                      BANNED_ADDRESSES, issued>>

FilterCoursesOr(payload) ==
    LET r == filter_courses_or(payload)
    IN /\ last' = Call("filter_courses_or", "", 0, r)
       /\ UNCHANGED <<ID_COUNTER, STORAGE, ADMIN_ADDRESS, MODERATOR_ADDRESSES,
                      BANNED_ADDRESSES, issued>>

AddCourse(caller, course, t) ==
    /\ ID_COUNTER < MaxId
    /\ LET r == add_course(caller, course, t)
       IN /\ ID_COUNTER' = r.counter
          /\ STORAGE' = r.storage
          /\ issued' = IF r.res = "Ok" THEN Append(issued, r.ret[1].id) ELSE issued
          /\ last' = Call("add_course", "", 0, r)
          /\ UNCHANGED <<ADMIN_ADDRESS, MODERATOR_ADDRESSES, BANNED_ADDRESSES>>

UpdateCourse(caller, id, payload, t) ==
    LET r == update_course(caller, id, payload, t)
    IN /\ STORAGE' = r.storage
       /\ last' = Call("update_course", "", id, r)
       /\ UNCHANGED <<ID_COUNTER, ADMIN_ADDRESS, MODERATOR_ADDRESSES,
                      BANNED_ADDRESSES, issued>>

DeleteCourse(caller, id) ==
    LET r == delete_course(caller, id)
    IN /\ STORAGE' = r.storage
       /\ last' = Call("delete_course", "", id, r)
       /\ UNCHANGED <<ID_COUNTER, ADMIN_ADDRESS, MODERATOR_ADDRESSES,
                      BANNED_ADDRESSES, issued>>

DeleteCoursesByCreator(caller, address) ==
    LET r == delete_courses_by_creator(caller, address)
    IN /\ STORAGE' = r.storage
       /\ last' = Call("delete_courses_by_creator", address, 0, r)
       /\ UNCHANGED <<ID_COUNTER, ADMIN_ADDRESS, MODERATOR_ADDRESSES,
                      BANNED_ADDRESSES, issued>>

DeleteMyCourses(caller) ==
    LET r == delete_my_courses(caller)
    IN /\ STORAGE' = r.storage
       /\ last' = Call("delete_my_courses", "", 0, r)
       /\ UNCHANGED <<ID_COUNTER, ADMIN_ADDRESS, MODERATOR_ADDRESSES,
                      BANNED_ADDRESSES, issued>>

BanCreator(caller, address) ==
    LET r == ban_creator(caller, address)
    IN /\ STORAGE' = r.storage
       /\ BANNED_ADDRESSES' = r.banned
       /\ last' = Call("ban_creator", address, 0, r)
       /\ UNCHANGED <<ID_COUNTER, ADMIN_ADDRESS, MODERATOR_ADDRESSES, issued>>

UnBanCreator(caller, address) ==
    LET r == un_ban_creator(caller, address)
    IN /\ BANNED_ADDRESSES' = r.banned
       /\ last' = Call("un_ban_creator", address, 0, r)
       /\ UNCHANGED <<ID_COUNTER, STORAGE, ADMIN_ADDRESS, MODERATOR_ADDRESSES, issued>>

Next ==
    \/ \E caller \in Callers, address \in AdminAddrs : SetAdminAddress(caller, address)
    \/ \E caller \in Callers, address \in ModAddrs : AddModerator(caller, address)
    \/ \E caller \in Callers, address \in ModAddrs : RemoveModerator(caller, address)
    \/ \E id \in Ids : GetCourse(id)
    \/ \E payload \in MainFilterPayloads : FilterCoursesAnd(payload)
    \/ \E payload \in MainFilterPayloads : FilterCoursesOr(payload)
    \/ \E caller \in Callers, course \in AddPayloads, t \in Times :
          AddCourse(caller, course, t)
    \/ \E caller \in Callers, id \in Ids, payload \in UpdatePayloads, t \in Times :
          UpdateCourse(caller, id, payload, t)
    \/ \E caller \in Callers, id \in Ids : DeleteCourse(caller, id)
    \/ \E caller \in Callers, address \in Addrs : DeleteCoursesByCreator(caller, address)
    \/ \E caller \in Callers : DeleteMyCourses(caller)
    \/ \E caller \in Callers, address \in Addrs : BanCreator(caller, address)
    \/ \E caller \in Callers, address \in Addrs : UnBanCreator(caller, address)

Spec == Init /\ [][Next]_vars

\* the ledger alone, with enough addresses to fill the moderator list
NextLedger ==
    \/ \E caller \in LedgerCallers, address \in LedgerCallers :
          SetAdminAddress(caller, address)
    \/ \E caller \in LedgerCallers, address \in LedgerModAddrs :
          AddModerator(caller, address)
    \/ \E caller \in LedgerCallers, address \in LedgerModAddrs :
          RemoveModerator(caller, address)

SpecLedger == Init /\ [][NextLedger]_vars

\* the table and the filters, with courses that differ in keyword and category
NextFilter ==
    \/ \E caller \in FilterCallers, course \in FilterAddPayloads, t \in Times :
          AddCourse(caller, course, t)
    \/ \E caller \in FilterCallers, id \in Ids : DeleteCourse(caller, id)
    \/ \E payload \in FilterPayloads : FilterCoursesAnd(payload)
    \/ \E payload \in FilterPayloads : FilterCoursesOr(payload)

SpecFilter == Init /\ [][NextFilter]_vars

\* the table under update_course, with patches of several fields at two times
NextUpdate ==
    \/ \E caller \in UpdateCallers : SetAdminAddress(caller, "A")
    \/ \E caller \in UpdateCallers, t \in Times : AddCourse(caller, ValidPayload, t)
    \/ \E caller \in UpdateCallers, id \in Ids, payload \in UpdateActionPatches,
            t \in PatchTimes :
          UpdateCourse(caller, id, payload, t)

SpecUpdate == Init /\ [][NextUpdate]_vars

----------------------------------------------------------------------------
(* Vocabulary of the properties *)

\* the identity is the current admin
IsAdminNow(x) == ADMIN_ADDRESS = <<x>>

\* the identity is in the moderator list
IsModeratorNow(x) == \E i \in DOMAIN MODERATOR_ADDRESSES : MODERATOR_ADDRESSES[i] = x

\* the identity is in the banned list
IsBannedNow(x) == \E i \in DOMAIN BANNED_ADDRESSES : BANNED_ADDRESSES[i] = x

\* the identity is the creator of a record of the table
OwnsRecordIn(map, x) == \E id \in DOMAIN map : map[id].creator_address = x

\* the list holds the value
Holds(vec, x) == \E i \in DOMAIN vec : vec[i] = x

\* callers and addresses of either specification
AnyCaller == Callers \cup LedgerCallers

AnyModAddr == ModAddrs \cup LedgerModAddrs

----------------------------------------------------------------------------
(* C1 *)

\* C1: for every id in the table, update_course and delete_course called by an
\* identity that is not the record's creator, not the admin and not a moderator
\* reply UnAuthorized and leave the table as it is; called by the record's
\* creator they succeed.
C1_OwnerOrPrivilegedOnly ==
    \A id \in DOMAIN STORAGE : \A caller \in Callers :
        LET creator == STORAGE[id].creator_address
            d == delete_course(caller, id)
        IN /\ (caller # creator /\ ~IsAdminNow(caller) /\ ~IsModeratorNow(caller)) =>
                /\ d.res = "UnAuthorized"
                /\ d.storage = STORAGE
                /\ \A payload \in UpdatePayloads, t \in Times :
                      LET u == update_course(caller, id, payload, t)
                      IN u.res = "UnAuthorized" /\ u.storage = STORAGE
           /\ (caller = creator) =>
                /\ d.res = "Ok"
                /\ \A payload \in UpdatePayloads, t \in Times :
                      update_course(caller, id, payload, t).res = "Ok"

\* an update was refused while an admin and a moderator exist and the record stays
C1_Witness ==
    /\ last.op = "update_course"
    /\ last.res = "UnAuthorized"
    /\ last.id \in DOMAIN STORAGE
    /\ ADMIN_ADDRESS # None
    /\ MODERATOR_ADDRESSES # <<>>

----------------------------------------------------------------------------
(* C2 *)

\* C2: the ids returned by the successful add_course calls are strictly
\* increasing in call order, the first one is 0, and none is issued twice,
\* also after records were removed.
C2_IdsIncreaseFromZero ==
    /\ (Len(issued) > 0 => issued[1] = 0)
    /\ \A i \in 1..Len(issued) : \A j \in 1..Len(issued) :
          i < j => issued[i] < issued[j]

\* a second id was issued after the record of the first was removed
C2_Witness ==
    /\ last.op = "add_course"
    /\ last.res = "Ok"
    /\ Len(issued) = 2
    /\ 0 \notin DOMAIN STORAGE
    /\ 1 \in DOMAIN STORAGE

----------------------------------------------------------------------------
(* C3 *)

\* C3: after ban_creator(X) succeeds X is banned and owns no record; while X is
\* banned add_course by X replies BannedUser and the table holds no record of
\* X; and X leaves the banned list only by a successful un_ban_creator(X).
C3_BanCascade ==
    /\ [](/\ (last.op = "ban_creator" /\ last.res = "Ok") =>
                (IsBannedNow(last.addr) /\ ~OwnsRecordIn(STORAGE, last.addr))
          /\ \A x \in Callers :
                IsBannedNow(x) =>
                   /\ ~OwnsRecordIn(STORAGE, x)
                   /\ \A course \in AddPayloads, t \in Times :
                         add_course(x, course, t).res = "BannedUser")
    /\ [][\A x \in Callers :
             (IsBannedNow(x) /\ ~IsBannedNow(x)') =>
                (last'.op = "un_ban_creator" /\ last'.addr = x /\ last'.res = "Ok")]_vars

\* a banned identity called add_course and got BannedUser
C3_Witness ==
    /\ last.op = "add_course"
    /\ last.res = "BannedUser"
    /\ BANNED_ADDRESSES # <<>>

----------------------------------------------------------------------------
(* C4 *)

\* C4 as stated: add_course, update_course, delete_course and delete_my_courses
\* called by a banned identity never succeed, whatever roles it holds.
C4_BannedNeverMutates ==
    \A x \in Callers :
        IsBannedNow(x) =>
           /\ \A course \in AddPayloads, t \in Times : add_course(x, course, t).res # "Ok"
           /\ delete_my_courses(x).res # "Ok"
           /\ \A id \in AllIds :
                 /\ delete_course(x, id).res # "Ok"
                 /\ \A payload \in UpdatePayloads, t \in Times :
                       update_course(x, id, payload, t).res # "Ok"

\* C4 amended: add_course and delete_my_courses called by a banned identity
\* never succeed; update_course and delete_course called by it succeed only
\* when it is the admin or a moderator.
C4_BannedMutatesOnlyWithRole ==
    \A x \in Callers :
        IsBannedNow(x) =>
           /\ \A course \in AddPayloads, t \in Times : add_course(x, course, t).res # "Ok"
           /\ delete_my_courses(x).res # "Ok"
           /\ \A id \in AllIds :
                 /\ delete_course(x, id).res = "Ok" =>
                       (IsAdminNow(x) \/ IsModeratorNow(x))
                 /\ \A payload \in UpdatePayloads, t \in Times :
                       update_course(x, id, payload, t).res = "Ok" =>
                          (IsAdminNow(x) \/ IsModeratorNow(x))

\* a banned identity without a role exists, and an update was refused
C4_Witness ==
    /\ \E x \in Callers : IsBannedNow(x) /\ ~IsAdminNow(x) /\ ~IsModeratorNow(x)
    /\ last.op = "update_course"
    /\ last.res = "UnAuthorized"

----------------------------------------------------------------------------
(* C5 *)

\* C5: delete_courses_by_creator called by an identity that is neither the
\* admin nor a moderator replies UnAuthorized and removes no record, for every
\* address.
C5_DeleteByCreatorPrivilegedOnly ==
    \A caller \in Callers, address \in Addrs :
        (~IsAdminNow(caller) /\ ~IsModeratorNow(caller)) =>
            LET r == delete_courses_by_creator(caller, address)
            IN r.res = "UnAuthorized" /\ r.storage = STORAGE

----------------------------------------------------------------------------
(* C6 *)

\* C6: set_admin_address succeeds for any caller when no admin is set and for
\* the current admin otherwise, and then the admin is the address; in every
\* other case it replies UnAuthorized and the admin is unchanged.  The admin
\* cell is never unset again and changes only in a successful
\* set_admin_address step of the then-current admin.
C6_AdminRotation ==
    /\ [](\A caller \in Callers, address \in AdminAddrs :
            LET r == set_admin_address(caller, address)
            IN IF ADMIN_ADDRESS = None \/ IsAdminNow(caller)
               THEN r.res = "Ok" /\ r.admin = <<address>>
               ELSE r.res = "UnAuthorized" /\ r.admin = ADMIN_ADDRESS)
    /\ [][ADMIN_ADDRESS' # ADMIN_ADDRESS =>
             /\ ADMIN_ADDRESS' # None
             /\ last'.op = "set_admin_address"
             /\ last'.res = "Ok"
             /\ ADMIN_ADDRESS' = <<last'.addr>>
             /\ ADMIN_ADDRESS # None =>
                   \E caller \in Callers :
                      /\ IsAdminNow(caller)
                      /\ set_admin_address(caller, last'.addr).res = "Ok"]_vars

\* a caller who is not the admin was refused, and the admin had been rotated
C6_Witness ==
    /\ last.op = "set_admin_address"
    /\ last.res = "UnAuthorized"
    /\ ADMIN_ADDRESS = <<"B">>

----------------------------------------------------------------------------
(* C7 *)

\* C7: ban_creator replies UnAuthorized and changes neither the table nor the
\* banned list when the caller is neither admin nor moderator, and when the
\* address is the admin or a moderator.
C7_BanRefusals ==
    \A caller \in Callers, address \in Addrs :
        (\/ (~IsAdminNow(caller) /\ ~IsModeratorNow(caller))
         \/ IsAdminNow(address)
         \/ IsModeratorNow(address)) =>
            LET r == ban_creator(caller, address)
            IN /\ r.res = "UnAuthorized"
               /\ r.storage = STORAGE
               /\ r.banned = BANNED_ADDRESSES

\* the ban of the admin, who owns a record, was refused
C7_Witness ==
    /\ last.op = "ban_creator"
    /\ last.res = "UnAuthorized"
    /\ IsAdminNow(last.addr)
    /\ OwnsRecordIn(STORAGE, last.addr)

----------------------------------------------------------------------------
(* C8 *)

\* C8 as stated: ban_creator by the admin or a moderator on an address without
\* a role that owns no record replies NotFound, the banned list and the table
\* are unchanged, and add_course by the address with a valid payload succeeds
\* afterwards.
C8_FailedBanLeavesAddressFree ==
    \A caller \in Callers, address \in Addrs :
        (/\ IsAdminNow(caller) \/ IsModeratorNow(caller)
         /\ ~IsAdminNow(address) /\ ~IsModeratorNow(address)
         /\ ~OwnsRecordIn(STORAGE, address)) =>
            LET r == ban_creator(caller, address)
            IN /\ r.res = "NotFound"
               /\ r.storage = STORAGE
               /\ r.banned = BANNED_ADDRESSES
               /\ \A t \in Times : add_course(address, ValidPayload, t).res = "Ok"

\* C8 amended: in that case ban_creator replies NotFound and the banned list
\* and the table are unchanged; add_course by the address with a valid payload
\* succeeds afterwards if the address was not in the banned list before (an
\* address that was banned earlier stays banned and gets BannedUser).
C8_FailedBanChangesNothing ==
    \A caller \in Callers, address \in Addrs :
        (/\ IsAdminNow(caller) \/ IsModeratorNow(caller)
         /\ ~IsAdminNow(address) /\ ~IsModeratorNow(address)
         /\ ~OwnsRecordIn(STORAGE, address)) =>
            LET r == ban_creator(caller, address)
            IN /\ r.res = "NotFound"
               /\ r.storage = STORAGE
               /\ r.banned = BANNED_ADDRESSES
               /\ \A t \in Times :
                     add_course(address, ValidPayload, t).res =
                        (IF Holds(r.banned, address) THEN "BannedUser" ELSE "Ok")

\* a ban of an address without records was refused and the address is not banned
C8_Witness ==
    /\ last.op = "ban_creator"
    /\ last.res = "NotFound"
    /\ ~IsBannedNow(last.addr)
    /\ ~OwnsRecordIn(STORAGE, last.addr)

----------------------------------------------------------------------------
(* C9 *)

\* C9: add_moderator is refused unless the caller is the admin; for the admin
\* it fails on a list of 5 entries, fails on an address already in the list,
\* and appends the address otherwise; a failure leaves the list unchanged; the
\* list never holds more than 5 entries and holds none twice.
C9_ModeratorListBounded ==
    /\ Len(MODERATOR_ADDRESSES) <= 5
    /\ \A i \in DOMAIN MODERATOR_ADDRESSES : \A j \in DOMAIN MODERATOR_ADDRESSES :
          i # j => MODERATOR_ADDRESSES[i] # MODERATOR_ADDRESSES[j]
    /\ \A caller \in AnyCaller, address \in AnyModAddr :
          LET r == add_moderator(caller, address)
          IN IF ~IsAdminNow(caller)
             THEN /\ r.res = "Only admin can add moderators"
                  /\ r.moderators = MODERATOR_ADDRESSES
             ELSE IF Len(MODERATOR_ADDRESSES) = 5
             THEN /\ r.res = "Maximum number of moderators reached"
                  /\ r.moderators = MODERATOR_ADDRESSES
             ELSE IF IsModeratorNow(address)
             THEN /\ r.res = "Moderator address already exists"
                  /\ r.moderators = MODERATOR_ADDRESSES
             ELSE /\ r.res = "Ok"
                  /\ r.moderators = MODERATOR_ADDRESSES \o <<address>>

\* the admin was refused a sixth moderator that is not in the full list
C9_Witness ==
    /\ last.op = "add_moderator"
    /\ last.res = "Maximum number of moderators reached"
    /\ Len(MODERATOR_ADDRESSES) = 5
    /\ ~IsModeratorNow(last.addr)

----------------------------------------------------------------------------
(* C10 *)

\* C10: remove_moderator replies UnAuthorized unless the caller is the admin,
\* NotFound if the address is not a moderator, and removes it otherwise; after
\* a successful removal the address is not in the list; an identity that is
\* not in the list and not the admin is refused by ban_creator and
\* un_ban_creator, and by update_course and delete_course on the records of
\* others; and it enters the list again only by a successful add_moderator.
C10_RemovedModeratorLosesRights ==
    /\ [](/\ \A caller \in Callers, address \in ModAddrs :
                LET r == remove_moderator(caller, address)
                IN IF ~IsAdminNow(caller)
                   THEN r.res = "UnAuthorized" /\ r.moderators = MODERATOR_ADDRESSES
                   ELSE IF ~IsModeratorNow(address)
                   THEN r.res = "NotFound" /\ r.moderators = MODERATOR_ADDRESSES
                   ELSE r.res = "Ok" /\ ~Holds(r.moderators, address)
          /\ (last.op = "remove_moderator" /\ last.res = "Ok") =>
                ~IsModeratorNow(last.addr)
          /\ \A x \in Callers :
                (~IsModeratorNow(x) /\ ~IsAdminNow(x)) =>
                   /\ \A address \in Addrs :
                         /\ ban_creator(x, address).res = "UnAuthorized"
                         /\ un_ban_creator(x, address).res = "UnAuthorized"
                   /\ \A id \in DOMAIN STORAGE :
                         STORAGE[id].creator_address # x =>
                            /\ delete_course(x, id).res = "UnAuthorized"
                            /\ \A payload \in UpdatePayloads, t \in Times :
                                  update_course(x, id, payload, t).res = "UnAuthorized")
    /\ [][\A x \in ModAddrs :
             (~IsModeratorNow(x) /\ IsModeratorNow(x)') =>
                (last'.op = "add_moderator" /\ last'.addr = x /\ last'.res = "Ok")]_vars

\* a moderator was removed while a record of somebody else is in the table
C10_Witness ==
    /\ last.op = "remove_moderator"
    /\ last.res = "Ok"
    /\ ~IsModeratorNow(last.addr)
    /\ ~IsAdminNow(last.addr)
    /\ \E id \in DOMAIN STORAGE : STORAGE[id].creator_address # last.addr

----------------------------------------------------------------------------
(* C11 *)

\* C11: un_ban_creator replies UnAuthorized unless the caller is the admin or
\* a moderator, NotFound if the address is not banned, and removes it
\* otherwise; right after a successful un_ban_creator(address) the address is
\* not in the banned list and add_course by it with a complete payload succeeds.
C11_UnBanRestoresAddCourse ==
    /\ \A caller \in Callers, address \in Addrs :
          LET r == un_ban_creator(caller, address)
          IN IF ~IsAdminNow(caller) /\ ~IsModeratorNow(caller)
             THEN r.res = "UnAuthorized" /\ r.banned = BANNED_ADDRESSES
             ELSE IF ~IsBannedNow(address)
             THEN r.res = "NotFound" /\ r.banned = BANNED_ADDRESSES
             ELSE /\ r.res = "Ok"
                  /\ ~Holds(r.banned, address)
                  /\ \A y \in Addrs \ {address} : Holds(r.banned, y) = IsBannedNow(y)
    /\ (last.op = "un_ban_creator" /\ last.res = "Ok") =>
          /\ ~IsBannedNow(last.addr)
          /\ \A t \in Times : add_course(last.addr, ValidPayload, t).res = "Ok"

\* an address was taken off the banned list while another one stays banned
C11_Witness ==
    /\ last.op = "un_ban_creator"
    /\ last.res = "Ok"
    /\ BANNED_ADDRESSES # <<>>

----------------------------------------------------------------------------
(* C12 *)

\* the descriptive fields of a course
DescriptiveFields ==
    {"title", "creator_name", "body", "attachment_url", "keyword", "category", "contact"}

\* patches the property ranges over: the empty one, one per field, one that
\* names every field, and one that sets a field to the empty string
Patches ==
    {CourseUpdatePayLoad(None, None, None, None, None, None, None),
     CourseUpdatePayLoad(Some("z"), None, None, None, None, None, None),
     CourseUpdatePayLoad(None, Some("z"), None, None, None, None, None),
     CourseUpdatePayLoad(None, None, Some("z"), None, None, None, None),
     CourseUpdatePayLoad(None, None, None, Some("z"), None, None, None),
     CourseUpdatePayLoad(None, None, None, None, Some("z"), None, None),
     CourseUpdatePayLoad(None, None, None, None, None, Some("z"), None),
     CourseUpdatePayLoad(None, None, None, None, None, None, Some("z")),
     CourseUpdatePayLoad(Some("z"), Some("z"), Some("z"), Some("z"), Some("z"),
                         Some("z"), Some("z")),
     CourseUpdatePayLoad(None, None, None, None, Some(""), None, None)}

\* C12: a successful update_course changes, in the record under id, exactly
\* the descriptive fields the patch names, to the patch values, and sets
\* updated_at; the other fields, id, creator_address and created_at are as
\* before, no other record changes, and the step leaves the id counter and the
\* ledger as they are.  (The creator's update succeeds; every other successful
\* caller gets the same reply and the same table.)
C12_UpdateFrame ==
    /\ [](\A id \in DOMAIN STORAGE : \A payload \in Patches, t \in PatchTimes :
            LET old == STORAGE[id]
                r == update_course(old.creator_address, id, payload, t)
            IN /\ r.res = "Ok"
               /\ DOMAIN r.storage = DOMAIN STORAGE
               /\ \A k \in DOMAIN STORAGE \ {id} : r.storage[k] = STORAGE[k]
               /\ \A f \in DescriptiveFields :
                     r.storage[id][f] =
                        (IF payload[f] = <<>> THEN old[f] ELSE payload[f][1])
               /\ r.storage[id].updated_at = <<t>>
               /\ r.storage[id].id = old.id
               /\ r.storage[id].creator_address = old.creator_address
               /\ r.storage[id].created_at = old.created_at
               /\ r.ret = <<r.storage[id]>>
               /\ \A caller \in UpdateCallers :
                     LET q == update_course(caller, id, payload, t)
                     IN q.res = "Ok" => q = r)
    /\ [][last'.op = "update_course" =>
             UNCHANGED <<ID_COUNTER, ADMIN_ADDRESS, MODERATOR_ADDRESSES,
                         BANNED_ADDRESSES>>]_vars

\* a record was patched in title, keyword and contact, later than its
\* creation, while another record and an admin exist
C12_Witness ==
    /\ last.op = "update_course"
    /\ last.res = "Ok"
    /\ last.id \in DOMAIN STORAGE
    /\ STORAGE[last.id].title = "z"
    /\ STORAGE[last.id].keyword = ""
    /\ STORAGE[last.id].contact = "z"
    /\ STORAGE[last.id].body = "x"
    /\ STORAGE[last.id].created_at = 1
    /\ STORAGE[last.id].updated_at = <<2>>
    /\ \E k \in DOMAIN STORAGE : k # last.id
    /\ ADMIN_ADDRESS # <<>>

----------------------------------------------------------------------------
(* C13 *)

\* the sequence lists the records of the table with the ids of S, each once,
\* in ascending id order
ListsInIdOrder(seq, S) ==
    /\ Len(seq) = Cardinality(S)
    /\ \A i \in DOMAIN seq : seq[i].id \in S /\ seq[i] = STORAGE[seq[i].id]
    /\ \A i \in DOMAIN seq : \A j \in DOMAIN seq : i < j => seq[i].id < seq[j].id

\* the ids of the records that equal every criterion the payload names
AllCriteriaIds(p) ==
    {id \in DOMAIN STORAGE :
        /\ p.keyword = <<>> \/ STORAGE[id].keyword = p.keyword[1]
        /\ p.category = <<>> \/ STORAGE[id].category = p.category[1]
        /\ p.creator_address = <<>> \/ STORAGE[id].creator_address = p.creator_address[1]}

\* the ids of the records that equal at least one criterion the payload names
SomeCriterionIds(p) ==
    {id \in DOMAIN STORAGE :
        \/ p.keyword # <<>> /\ STORAGE[id].keyword = p.keyword[1]
        \/ p.category # <<>> /\ STORAGE[id].category = p.category[1]
        \/ p.creator_address # <<>> /\ STORAGE[id].creator_address = p.creator_address[1]}

\* the payload names at least one criterion
NamesCriterion(p) == p.keyword # <<>> \/ p.category # <<>> \/ p.creator_address # <<>>

\* C13: for a filter payload with at least one criterion, filter_courses_and
\* returns exactly the records that equal every present criterion and
\* filter_courses_or exactly those that equal at least one, in ascending id
\* order; each replies NotFound exactly when that result is empty; the AND
\* result is part of the OR result.
C13_FiltersSelectExactly ==
    \A p \in FilterPayloads :
        NamesCriterion(p) =>
            LET a == filter_courses_and(p)
                o == filter_courses_or(p)
            IN /\ ListsInIdOrder(a.ret, AllCriteriaIds(p))
               /\ a.res = (IF AllCriteriaIds(p) = {} THEN "NotFound" ELSE "Ok")
               /\ ListsInIdOrder(o.ret, SomeCriterionIds(p))
               /\ o.res = (IF SomeCriterionIds(p) = {} THEN "NotFound" ELSE "Ok")
               /\ \A i \in DOMAIN a.ret : \E j \in DOMAIN o.ret : o.ret[j] = a.ret[i]

\* the AND filter found nothing in a table of two records that share neither
\* keyword nor category, so that two criteria select one with OR and none with AND
C13_Witness ==
    /\ last.op = "filter_courses_and"
    /\ last.res = "NotFound"
    /\ \E i \in DOMAIN STORAGE : \E j \in DOMAIN STORAGE :
          /\ STORAGE[i].keyword # STORAGE[j].keyword
          /\ STORAGE[i].category # STORAGE[j].category

----------------------------------------------------------------------------
(* C14 *)

\* the message of the reply to a payload without criteria
EmptyPayloadMsg ==
    "Filter payload is empty; at least one filter criterion must be provided"

----------------------------------------------------------------------------
(* C15 *)

\* C15: delete_my_courses called by C removes exactly the records whose
\* creator is C and returns them in ascending id order; the records of the
\* others, the id counter and the ledger stay; when C owns no record the reply
\* is NotFound and nothing changes.
C15_DeleteMyCoursesFrame ==
    /\ [](\A caller \in Callers :
            LET r == delete_my_courses(caller)
                mine == {id \in DOMAIN STORAGE : STORAGE[id].creator_address = caller}
            IN IF mine = {}
               THEN r.res = "NotFound" /\ r.ret = <<>> /\ r.storage = STORAGE
               ELSE /\ r.res = "Ok"
                    /\ ListsInIdOrder(r.ret, mine)
                    /\ DOMAIN r.storage = DOMAIN STORAGE \ mine
                    /\ \A k \in DOMAIN r.storage : r.storage[k] = STORAGE[k])
    /\ [][last'.op = "delete_my_courses" =>
             UNCHANGED <<ID_COUNTER, ADMIN_ADDRESS, MODERATOR_ADDRESSES,
                         BANNED_ADDRESSES>>]_vars

\* a caller removed its record and the record of another creator stays
C15_Witness ==
    /\ last.op = "delete_my_courses"
    /\ last.res = "Ok"
    /\ STORAGE # <<>>
    /\ ID_COUNTER = 2

----------------------------------------------------------------------------
(* C16 *)

\* C16: a call of any exported operation that replies a failure leaves the id
\* counter, the record table, the admin cell, the moderator list and the
\* banned list as they were before the call.
C16_FailureChangesNothing ==
    [][last'.res # "Ok" =>
          UNCHANGED <<ID_COUNTER, STORAGE, ADMIN_ADDRESS, MODERATOR_ADDRESSES,
                      BANNED_ADDRESSES>>]_vars

\* delete_course was refused and the record it named is still in the table
C16_Witness ==
    /\ last.op = "delete_course"
    /\ last.res = "UnAuthorized"
    /\ last.id \in DOMAIN STORAGE
    /\ ADMIN_ADDRESS # None

----------------------------------------------------------------------------
(* C17 *)

\* the complete payload with one field emptied ("none": no field emptied)
WithEmptyField(f) ==
    IF f = "none" THEN ValidPayload ELSE [ValidPayload EXCEPT ![f] = ""]

\* C17: add_course replies BannedUser to a banned caller and EmptyFields to a
\* payload with any of its seven fields empty, and then leaves the id counter
\* and the table as they were; a successful call receives the current counter
\* as id and advances the counter by one, so the ids issued over the
\* successful calls are 0, 1, 2, ... whatever calls failed in between.
C17_ValidationBeforeIdIssue ==
    /\ Len(issued) = ID_COUNTER
    /\ \A i \in DOMAIN issued : issued[i] = i - 1
    /\ \A caller \in Callers, f \in DescriptiveFields \cup {"none"}, t \in Times :
          LET r == add_course(caller, WithEmptyField(f), t)
          IN /\ r.res = (IF IsBannedNow(caller) THEN "BannedUser"
                         ELSE IF f # "none" THEN "EmptyFields" ELSE "Ok")
             /\ r.res # "Ok" =>
                   r.counter = ID_COUNTER /\ r.storage = STORAGE /\ r.ret = <<>>
             /\ r.res = "Ok" =>
                   /\ r.ret[1].id = ID_COUNTER
                   /\ r.counter = ID_COUNTER + 1
                   /\ DOMAIN r.storage = DOMAIN STORAGE \cup {ID_COUNTER}
                   /\ r.storage[ID_COUNTER] = r.ret[1]

\* add_course was refused for an empty field after id 0 was issued, and id 1 is
\* still the next one
C17_Witness ==
    /\ last.op = "add_course"
    /\ last.res = "EmptyFields"
    /\ issued = <<0>>
    /\ ID_COUNTER = 1

----------------------------------------------------------------------------
(* C18 *)

\* the identity is in the banned list and is the admin or a moderator
PrivilegedAndBanned(x) == IsBannedNow(x) /\ (IsAdminNow(x) \/ IsModeratorNow(x))

\* C18 as stated: in every reachable state the banned list contains neither
\* the admin nor a moderator.
C18_NeverPrivilegedAndBanned == \A x \in Addrs : ~PrivilegedAndBanned(x)

\* C18 amended: ban_creator never bans an identity that is the admin or a
\* moderator; an identity comes to be privileged and banned at once only by a
\* successful set_admin_address or add_moderator that names an identity
\* already in the banned list.
C18_BannedThenPromotedOnly ==
    [][/\ (last'.op = "ban_creator" /\ last'.res = "Ok") =>
             (~IsAdminNow(last'.addr) /\ ~IsModeratorNow(last'.addr))
       /\ \A x \in Addrs :
             (~PrivilegedAndBanned(x) /\ PrivilegedAndBanned(x)') =>
                /\ last'.op \in {"set_admin_address", "add_moderator"}
                /\ last'.res = "Ok"
                /\ last'.addr = x
                /\ IsBannedNow(x)]_vars

\* add_moderator made a banned identity a moderator
C18_Witness ==
    /\ last.op = "add_moderator"
    /\ last.res = "Ok"
    /\ PrivilegedAndBanned(last.addr)
    /\ IsModeratorNow(last.addr)

----------------------------------------------------------------------------
(* C19 *)

\* the ids issued so far
IssuedIds == {issued[i] : i \in DOMAIN issued}

\* C19: a successful delete_course(id) returns the record stored under id and
\* removes it alone; for an id that is not in the table, get_course,
\* update_course and delete_course reply NotFound to every caller; an id that
\* was never issued is not in the table, and an issued id that has left the
\* table never comes back.
C19_DeletedIdStaysNotFound ==
    /\ [](/\ DOMAIN STORAGE \subseteq IssuedIds
          /\ \A id \in AllIds :
                IF id \in DOMAIN STORAGE
                THEN \A caller \in Callers :
                        LET r == delete_course(caller, id)
                        IN r.res = "Ok" =>
                              /\ r.ret = <<STORAGE[id]>>
                              /\ DOMAIN r.storage = DOMAIN STORAGE \ {id}
                              /\ \A k \in DOMAIN r.storage : r.storage[k] = STORAGE[k]
                ELSE /\ get_course(id).res = "NotFound"
                     /\ \A caller \in Callers :
                           /\ delete_course(caller, id).res = "NotFound"
                           /\ \A payload \in UpdatePayloads, t \in Times :
                                 update_course(caller, id, payload, t).res = "NotFound")
    /\ [][\A id \in IssuedIds : id \notin DOMAIN STORAGE => id \notin DOMAIN STORAGE']_vars

\* delete_course removed record 0 while record 1 stays
C19_Witness ==
    /\ last.op = "delete_course"
    /\ last.res = "Ok"
    /\ last.id = 0
    /\ DOMAIN STORAGE = {1}

----------------------------------------------------------------------------
(* C20 *)

\* the operations on records and the operations on the ledger alone
RecordOps ==
    {"add_course", "get_course", "update_course", "delete_course",
     "delete_my_courses", "delete_courses_by_creator",
     "filter_courses_and", "filter_courses_or"}

LedgerOnlyOps ==
    {"set_admin_address", "add_moderator", "remove_moderator", "un_ban_creator"}

\* C20: the record operations and both filters leave the admin cell, the
\* moderator list and the banned list unchanged; set_admin_address,
\* add_moderator, remove_moderator and un_ban_creator leave the table and the
\* id counter unchanged; only a successful add_course changes the id counter.
C20_LedgerAndRecordFrames ==
    [][/\ last'.op \in RecordOps =>
             UNCHANGED <<ADMIN_ADDRESS, MODERATOR_ADDRESSES, BANNED_ADDRESSES>>
       /\ last'.op \in LedgerOnlyOps => UNCHANGED <<STORAGE, ID_COUNTER>>
       /\ ID_COUNTER' # ID_COUNTER => (last'.op = "add_course" /\ last'.res = "Ok")]_vars

\* remove_moderator succeeded on a state with two ids issued and a record left
C20_Witness ==
    /\ last.op = "remove_moderator"
    /\ last.res = "Ok"
    /\ ID_COUNTER = 2
    /\ STORAGE # <<>>

----------------------------------------------------------------------------
(* C21 *)

\* C21: the banned list never holds an identity twice, so a successful
\* un_ban_creator(X), which removes the first occurrence of X, leaves X out of
\* the banned list.
C21_BannedListHasNoDuplicates ==
    /\ \A i \in DOMAIN BANNED_ADDRESSES : \A j \in DOMAIN BANNED_ADDRESSES :
          i # j => BANNED_ADDRESSES[i] # BANNED_ADDRESSES[j]
    /\ \A caller \in Callers, x \in Addrs :
          LET r == un_ban_creator(caller, x)
          IN r.res = "Ok" => ~Holds(r.banned, x)

\* un_ban_creator removed an identity from a banned list of two
C21_Witness ==
    /\ last.op = "un_ban_creator"
    /\ last.res = "Ok"
    /\ Len(BANNED_ADDRESSES) = 1
    /\ ~IsBannedNow(last.addr)

----------------------------------------------------------------------------
(* C22 *)

\* C22 as stated: every record is stored under its own id, the id is below the
\* id counter, and its seven descriptive fields are non-empty.
C22_RecordsWellFormed ==
    \A id \in DOMAIN STORAGE :
        /\ STORAGE[id].id = id
        /\ id < ID_COUNTER
        /\ \A f \in DescriptiveFields : STORAGE[id][f] # ""

\* C22 amended: every record is stored under its own id and the id is below
\* the id counter; the seven descriptive fields are non-empty as long as the
\* record was never updated, and a field becomes empty only by a successful
\* update_course of that record.
C22_NonEmptyUntilUpdated ==
    /\ [](\A id \in DOMAIN STORAGE :
             /\ STORAGE[id].id = id
             /\ id < ID_COUNTER
             /\ is_none(STORAGE[id].updated_at) =>
                   \A f \in DescriptiveFields : STORAGE[id][f] # "")
    /\ [][\A id \in DOMAIN STORAGE' : \A f \in DescriptiveFields :
             (/\ STORAGE'[id][f] = ""
              /\ (id \notin DOMAIN STORAGE \/ STORAGE[id][f] # "")) =>
                 (last'.op = "update_course" /\ last'.res = "Ok" /\ last'.id = id)]_vars

\* update_course emptied the keyword of one record; the other record was never
\* updated
C22_Witness ==
    /\ last.op = "update_course"
    /\ last.res = "Ok"
    /\ DOMAIN STORAGE = {0, 1}
    /\ STORAGE[last.id].keyword = ""
    /\ \E k \in DOMAIN STORAGE : is_none(STORAGE[k].updated_at)

----------------------------------------------------------------------------
(* The exclusive-access guards an operation takes, in program order *)

\* MutexGuard of lock(), Ref of borrow(), RefMut of borrow_mut(), and the drop
\* of one of them
acquire(cell, mode) == [e |-> "acquire", cell |-> cell, mode |-> mode]
release(cell) == [e |-> "release", cell |-> cell, mode |-> ""]

\* a section of code under a guard: the guard is dropped after the inner events
locked(cell, inner) == <<acquire(cell, "lock")>> \o inner \o <<release(cell)>>
borrowed(cell, inner) == <<acquire(cell, "borrow")>> \o inner \o <<release(cell)>>
borrowed_mut(cell, inner) == <<acquire(cell, "borrow_mut")>> \o inner \o <<release(cell)>>

\* the admin cell is read and, for a caller other than a set admin, the
\* moderator list as well (the guard is a temporary of the clone() statement)
guards_admin_then_moderators(address) ==
    locked("ADMIN_ADDRESS", <<>>)
    \o (IF ~is_none(ADMIN_ADDRESS) /\ address # ADMIN_ADDRESS[1]
        THEN locked("MODERATOR_ADDRESSES", <<>>)
        ELSE <<>>)

guards__get_course_(id) == borrowed("STORAGE", <<>>)
guards_do_insert == borrowed_mut("STORAGE", <<>>)
guards__is_admin(address) == locked("ADMIN_ADDRESS", <<>>)
guards__is_authorized(address) == guards_admin_then_moderators(address)
guards__is_allowed(id, caller) ==
    borrowed("STORAGE", <<>>)
    \o (IF get(id)[1].creator_address = caller
        THEN <<>>
        ELSE guards_admin_then_moderators(caller))

guards_set_admin_address(caller, address) == locked("ADMIN_ADDRESS", <<>>)
guards_add_moderator(caller, address) ==
    guards__is_admin(caller)
    \o (IF _is_admin(caller) THEN locked("MODERATOR_ADDRESSES", <<>>) ELSE <<>>)
guards_remove_moderator(caller, address) ==
    guards__is_admin(caller)
    \o (IF _is_admin(caller) THEN locked("MODERATOR_ADDRESSES", <<>>) ELSE <<>>)
guards_get_course(id) == guards__get_course_(id)
guards_filter_courses(payload) ==
    IF payload_is_empty(payload) THEN <<>> ELSE borrowed("STORAGE", <<>>)

\* mutant of guards_add_course: the counter is read inside the statement that
\* borrows it mutably
guards_add_course_fused_counter(caller, course) ==
    locked("BANNED_ADDRESSES",
           IF add_course(caller, course, 1).res # "Ok"
           THEN <<>>
           ELSE borrowed_mut("ID_COUNTER", borrowed("ID_COUNTER", <<>>))
                \o guards_do_insert)

\* add_course: the banned list stays locked for the whole body
guards_add_course(caller, course) ==
    locked("BANNED_ADDRESSES",
           IF add_course(caller, course, 1).res # "Ok"
           THEN <<>>
           ELSE borrowed("ID_COUNTER", <<>>) \o borrowed_mut("ID_COUNTER", <<>>)
                \o guards_do_insert)

guards_update_course(caller, id) ==
    borrowed("STORAGE", <<>>)
    \o (IF is_none(get(id)) THEN <<>>
        ELSE guards__is_allowed(id, caller)
             \o (IF _is_allowed(id, caller) THEN guards_do_insert ELSE <<>>))
guards_delete_course(caller, id) ==
    borrowed("STORAGE", <<>>)
    \o (IF is_none(get(id)) THEN <<>>
        ELSE guards__is_allowed(id, caller)
             \o (IF _is_allowed(id, caller) THEN borrowed_mut("STORAGE", <<>>) ELSE <<>>))
guards_delete_courses_by_creator(caller, address) ==
    (IF address = caller THEN <<>> ELSE guards_admin_then_moderators(caller))
    \o (IF delete_courses_by_creator(caller, address).res # "UnAuthorized"
        THEN borrowed_mut("STORAGE", <<>>)
        ELSE <<>>)
guards_delete_my_courses(caller) == borrowed_mut("STORAGE", <<>>)
guards_ban_creator(caller, address) ==
    guards__is_authorized(caller)
    \o guards_admin_then_moderators(address)
    \o (IF ban_creator(caller, address).res # "UnAuthorized"
        THEN guards_delete_courses_by_creator(caller, address)
             \o (IF ban_creator(caller, address).res = "Ok"
                 THEN locked("BANNED_ADDRESSES", <<>>)
                 ELSE <<>>)
        ELSE <<>>)
guards_un_ban_creator(caller, address) ==
    guards__is_authorized(caller)
    \o (IF _is_authorized(caller) THEN locked("BANNED_ADDRESSES", <<>>) ELSE <<>>)

\* the guard cannot be taken: a Mutex that is locked, a RefCell that is
\* borrowed mutably, or a mutable borrow of a RefCell that is borrowed
blocked(g, held) ==
    \E k \in DOMAIN held :
        /\ held[k].cell = g.cell
        /\ ~(g.mode = "borrow" /\ held[k].mode = "borrow")

\* the events run to the end: no guard is taken while it is blocked, guards
\* are dropped innermost first, and none is held at the return
RECURSIVE completes(_, _)
completes(events, held) ==
    IF events = <<>> THEN held = <<>>
    ELSE LET g == Head(events)
         IN IF g.e = "acquire"
            THEN ~blocked(g, held) /\ completes(Tail(events), Append(held, g))
            ELSE /\ held # <<>>
                 /\ held[Len(held)].cell = g.cell
                 /\ completes(Tail(events), SubSeq(held, 1, Len(held) - 1))

\* the operations whose guards nest or follow one another, with the callers
\* and addresses that reach each branch of their role tests
GuardCallers == {"A", "B"}
GuardTargets == {"B", "C"}

NextGuards ==
    \/ \E caller \in GuardCallers : SetAdminAddress(caller, "A")
    \/ \E caller \in GuardCallers : AddModerator(caller, "B")
    \/ \E caller \in Callers, t \in Times : AddCourse(caller, ValidPayload, t)
    \/ \E caller \in Callers, id \in Ids : DeleteCourse(caller, id)
    \/ \E caller \in GuardCallers, address \in GuardTargets : BanCreator(caller, address)
    \/ \E caller \in GuardCallers, address \in GuardTargets : UnBanCreator(caller, address)

SpecGuards == Init /\ [][NextGuards]_vars

----------------------------------------------------------------------------
(* C23 *)

\* C23: in every reachable state, whatever operation is called with whatever
\* input, the operation never takes a guard of ADMIN_ADDRESS,
\* MODERATOR_ADDRESSES or BANNED_ADDRESSES that it still holds, never borrows
\* STORAGE or ID_COUNTER mutably while a borrow of the same cell is live, and
\* holds no guard when it returns.
C23_NoGuardTakenTwice ==
    /\ \A caller \in Callers, address \in Addrs :
          /\ completes(guards_set_admin_address(caller, address), <<>>)
          /\ completes(guards_add_moderator(caller, address), <<>>)
          /\ completes(guards_remove_moderator(caller, address), <<>>)
          /\ completes(guards_delete_courses_by_creator(caller, address), <<>>)
          /\ completes(guards_ban_creator(caller, address), <<>>)
          /\ completes(guards_un_ban_creator(caller, address), <<>>)
    /\ \A caller \in Callers :
          /\ completes(guards_delete_my_courses(caller), <<>>)
          /\ \A course \in AddPayloads : completes(guards_add_course(caller, course), <<>>)
          /\ \A id \in AllIds :
                /\ completes(guards_update_course(caller, id), <<>>)
                /\ completes(guards_delete_course(caller, id), <<>>)
    /\ \A id \in AllIds : completes(guards_get_course(id), <<>>)
    /\ \A payload \in MainFilterPayloads : completes(guards_filter_courses(payload), <<>>)

\* add_course succeeded, and a further add_course would take the counter and
\* the table under the banned-list lock; a ban would take the banned-list lock
\* after delete_courses_by_creator has returned
C23_Witness ==
    /\ last.op = "add_course"
    /\ last.res = "Ok"
    /\ BANNED_ADDRESSES # <<>>
    /\ \E caller \in Callers : Len(guards_add_course(caller, ValidPayload)) = 8
    /\ \E caller \in Callers, address \in Addrs :
          /\ ban_creator(caller, address).res = "Ok"
          /\ Len(guards_ban_creator(caller, address)) >= 10

====
